---- MODULE Spec2Model ----
(***************************************************************************)
(* Model of bpvo/template_data_.h: the per-pyramid-level template store    *)
(* TemplateData_ (points, pixels, jacobians, warp), the pixel selector     *)
(* getValidPixelsLocations, the extraction setData and the residual        *)
(* evaluation computeResiduals.                                            *)
(*                                                                         *)
(* Vectors are sequences: the C++ element v[k] is the sequence element     *)
(* v[k+1].  Image buffers are functions on 0 .. rows*cols-1 (row-major).   *)
(* Image coordinates produced by the warp are fixed-point numbers in       *)
(* units of 1/Scale pixel; residuals are in units of 1/Scale^2 intensity.  *)
(***************************************************************************)
EXTENDS Integers, Sequences, FiniteSets

VARIABLES
  _points,      \* TemplateData_::_points
  _pixels,      \* TemplateData_::_pixels      (channel-major, c*N + i)
  _jacobians,   \* TemplateData_::_jacobians   (channel-major, plus sentinel)
  _warp,        \* TemplateData_::_warp        (its current pose)
  residuals,    \* caller's buffer handed to computeResiduals
  valid,        \* caller's buffer handed to computeResiduals
  selIn,        \* arguments of the last getValidPixelsLocations call
  inds,         \* what that call returned
  cur,          \* channels argument of the last computeResiduals call
  reads,        \* channel-buffer reads of the last call: <<kind, base, index>>
  lastOp        \* the last public call that completed

vars == <<_points, _pixels, _jacobians, _warp, residuals, valid,
          selIn, inds, cur, reads, lastOp>>

----------------------------------------------------------------------------
(* Bounds of the model *)

\* largest number of image rows handed to setData / computeResiduals
MaxDim == 7
\* intensities are drawn from 0 .. PixMod-1
PixMod == 5
\* fixed-point resolution of projected coordinates (1/Scale pixel)
Scale == 2
\* largest pose translation, in 1/Scale pixel per unit of disparity
MaxShift == 5
\* largest argument of reserve
MaxReserve == 1
\* largest nms_radius handed to getValidPixelsLocations directly
MaxRadius == 3

(* Program constants *)

\* Channels::NumChannels
NumChannels == 2
\* AlgorithmParameters::MIN_NUM_FOR_PIXEL_PSELECTION, scaled to the model's
\* image sizes so that both outcomes of line 194 occur
MIN_NUM_FOR_PIXEL_PSELECTION == 50
\* K(0,0) and K(1,1) of the intrinsic matrix the warp was built from
K00 == 2
K11 == 4

----------------------------------------------------------------------------
(* Helpers *)

Max(a, b) == IF a >= b THEN a ELSE b

\* cvFloor of the fixed-point value v/Scale + 0.5
cvFloorHalfUp(v) == (2 * v + Scale) \div (2 * Scale)

\* std::vector::resize(n): keeps the first n elements, appends `fill`
\* (value-initialised or, for Eigen types, indeterminate) up to length n
Resize(v, n, fill) == [k \in 1..n |-> IF k <= Len(v) THEN v[k] ELSE fill]

\* ind2sub(stride, ind, y, x)
ind2sub(stride, ind) == [y |-> ind \div stride, x |-> ind % stride]

----------------------------------------------------------------------------
(* Inputs: synthetic frames (channels + saliency + disparity).  A frame is  *)
(* named by its size and pattern; its buffers are functions of the name.   *)

\* intensity of channel c (0-based) at linear index ii
Intensity(f, c, ii) ==
  (((ii % f.cols) * (f.pat + 1)) + ((ii \div f.cols) * (c + 2)) + ((c + 1) * f.pat))
    % PixMod

\* saliency at linear index ii: isolated peaks on every other row and column
Saliency(f, ii) ==
  LET x == ii % f.cols
      y == ii \div f.cols
  IN  IF x % 2 = 0 /\ (y + f.pat) % 2 = 0 THEN 3 + ((x \div 2) % 2) ELSE (x + y) % 3

\* disparity at linear index ii; 0 is the "invalid" reading
Disparity(f, ii) ==
  LET v == ((ii % f.cols) + (ii \div f.cols) + f.pat) % 4
  IN  IF v = 3 THEN 0 ELSE 1 + (v % 2)

MakeFrame(r, c, k) == [rows |-> r, cols |-> c, pat |-> k]

\* frames handed to setData and computeResiduals
Frames == {MakeFrame(r, r + 2, r % 2) : r \in (MaxDim - 2)..MaxDim}

\* frames handed to getValidPixelsLocations directly
SelFrames ==
  {MakeFrame(r, c, k) : r \in (MaxDim - 2)..(MaxDim + 2),
                        c \in (MaxDim - 2)..(MaxDim + 2),
                        k \in 0..1}

NoFrame == MakeFrame(0, 0, 0)

\* Channels capability.  channelData(c) is the pointer to channel c's buffer
\* of rows*cols samples; the saliency map is a rows x cols view of the frame
channelData(f, c) == [frame |-> f, channel |-> c, size |-> f.rows * f.cols]
channelsSize(f) == NumChannels
computeSaliencyMap(f) == [rows |-> f.rows, cols |-> f.cols, frame |-> f]

\* smap(y, x)
smapAt(smap, y, x) == Saliency(smap.frame, (y * smap.cols) + x)

\* DisparityPyramidLevel(D, _pyr_level)(y, x)
dmapAt(f, y, x) == Disparity(f, (y * f.cols) + x)

----------------------------------------------------------------------------
(* PixelSelector *)

\* IsLocalMax: strict maximum of the saliency over the (2r+1)^2 window
IsLocalMax(smap, radius, y, x) ==
  radius > 0 =>
    \A dy \in (-radius)..radius : \A dx \in (-radius)..radius :
      (dy # 0 \/ dx # 0) =>
        smapAt(smap, y + dy, x + dx) < smapAt(smap, y, x)

\* ValidPixelPredicate(dmap, smap, radius)(y, x)
is_pixel_valid(f, smap, radius, y, x) ==
  dmapAt(f, y, x) > 0 /\ IsLocalMax(smap, radius, y, x)

\* a border that forgets the minimum of 2
BorderRadiusOnly(nms_radius) == nms_radius

\* no border at all
BorderNone(nms_radius) == 0

\* const int border = std::max(2, nms_radius)
Border(nms_radius) == Max(2, nms_radius)

\* the (y, x) visited by the two nested loops, in visiting order
ScanOrder(rows, cols, border) ==
  LET h == Max(0, (rows - border - 1) - border)
      w == Max(0, (cols - border - 1) - border)
  IN  [k \in 1..(h * w) |->
        [y |-> border + ((k - 1) \div w), x |-> border + ((k - 1) % w)]]

getValidPixelsLocations(f, smap, nms_radius, do_nonmax_supp) ==
  LET radius == IF do_nonmax_supp THEN nms_radius ELSE -1
      border == Border(nms_radius)
      scan   == ScanOrder(smap.rows, smap.cols, border)
      keep(p) == is_pixel_valid(f, smap, radius, p.y, p.x)
      kept   == SelectSeq(scan, keep)
  IN  [k \in 1..Len(kept) |->
        [first  |-> (kept[k].y * smap.cols) + kept[k].x,
         second |-> dmapAt(f, kept[k].y, kept[k].x)]]

----------------------------------------------------------------------------
(* Warp capability: a translation (tx, ty) of the image plane, scaled by   *)
(* the point's disparity; the pose <<0, 0>> is "no motion".                *)

IdentityPose == [tx |-> 0, ty |-> 0]

\* candidate poses handed to computeResiduals
ShiftSet == {-MaxShift, 1 - MaxShift, 0, 1, MaxShift}
Poses ==
  {p \in [tx : ShiftSet, ty : ShiftSet] : p.tx = 0 \/ p.ty = 0 \/ p.tx = p.ty}

\* _warp.makePoint(x, y, d)
makePoint(x, y, d) == [x |-> x, y |-> y, d |-> d]

\* _warp.warpJacobianAtZero(p): 2 x 2, rows (d x'/d pose), (d y'/d pose)
warpJacobianAtZero(p) == << <<p.d, 0>>, <<0, p.d>> >>

\* _warp(p) under the pose last given to setPose, in 1/Scale pixel
Project(pose, p) ==
  [x |-> (p.x * Scale) + (pose.tx * p.d), y |-> (p.y * Scale) + (pose.ty * p.d)]

\* Jacobian::Zero()
JacobianZero == <<0, 0>>

\* ImageGradient(gx, gy) * Jw
GradTimesJw(gx, gy, Jw) ==
  << (gx * Jw[1][1]) + (gy * Jw[2][1]), (gx * Jw[1][2]) + (gy * Jw[2][2]) >>

----------------------------------------------------------------------------
(* Raw buffer access *)

\* c_ptr[idx]; a read outside the buffer yields the indeterminate `oob`
At(c_ptr, idx, oob) ==
  IF idx \in 0..(c_ptr.size - 1)
  THEN Intensity(c_ptr.frame, c_ptr.channel, idx)
  ELSE oob

\* values an indeterminate element may take
IndeterminatePixels == {0, PixMod - 1}
IndeterminatePoints == {makePoint(0, 0, 0), makePoint(-1, -1, -1)}
IndeterminateJacobians == {JacobianZero, <<-1, -1>>}

\* the values a read of buf[idx], idx in `idxs`, can yield beyond the buffer's
\* own: none matters when every index is inside the buffer
OutOfBufferValues(idxs, size) ==
  IF \A idx \in idxs : idx \in 0..(size - 1) THEN {0} ELSE IndeterminatePixels

\* the values the elements a resize appends can hold: none is appended when
\* the vector does not grow
AppendedValues(len, n, values) ==
  IF n <= len THEN {CHOOSE v \in values : TRUE} ELSE values

----------------------------------------------------------------------------
(* TemplateStore: reserve, resize *)

\* reserve written as resize
ReserveAsResize(v, n, fill) == Resize(v, n, fill)

\* std::vector::reserve(n): the contents and the size stay as they are
Reserve(v, n, fill) == v

\* the jacobians resized only when they have to grow
ResizeJacobiansGrowOnly(v, n, fill) == IF Len(v) >= n THEN v ELSE Resize(v, n, fill)

\* _jacobians.resize(_points.size() * NumChannels)
ResizeJacobians(v, n, fill) == Resize(v, n, fill)

\* the sentinel left out
PushSentinelOmitted(v) == v

\* _jacobians.push_back(Jacobian::Zero())
PushSentinel(v) == Append(v, JacobianZero)

----------------------------------------------------------------------------
(* PointBuilder + JacobianBuilder: setData *)

\* the loop of lines 208-212 over the resized _points
ComputePoints(P0, sel, stride) ==
  [i \in 1..Len(P0) |->
    IF i <= Len(sel)
    THEN LET s == ind2sub(stride, sel[i].first)
         IN  makePoint(s.x, s.y, sel[i].second)
    ELSE P0[i]]

\* the reference intensity taken one pixel to the right
PixelSampleNext(c_ptr, ii, oob) == At(c_ptr, ii + 1, oob)

\* static_cast<float>(c_ptr[ii])
PixelSample(c_ptr, ii, oob) == At(c_ptr, ii, oob)

\* the channel loop stopping after channel 0: the other channels' slots keep
\* what the resized vector held
ExtractPixelsFirstChannelOnly(X0, f, sel, oob) ==
  LET N == Len(sel)
  IN  [k \in 1..Len(X0) |->
        IF N > 0 /\ k <= N
        THEN PixelSample(channelData(f, 0), sel[k].first, oob)
        ELSE X0[k]]

\* P_ptr[i] = c_ptr[ii] for every channel c and selected i (slot c*N + i)
ExtractPixels(X0, f, sel, oob) ==
  LET N == Len(sel)
  IN  [k \in 1..Len(X0) |->
        LET c == (k - 1) \div N
            i == (k - 1) % N
        IN  IF N > 0 /\ c < channelsSize(f)
            THEN PixelSample(channelData(f, c), sel[i + 1].first, oob)
            ELSE X0[k]]

\* J_ptr[i] = ImageGradient(Fx*Ix, Fy*Iy) * Jw[i] (slot c*N + i)
ExtractJacobians(J0, f, sel, Jw, stride, oob) ==
  LET N  == Len(sel)
      Fx == K00 \div 2
      Fy == K11 \div 2
  IN  [k \in 1..Len(J0) |->
        LET c  == (k - 1) \div N
            i  == (k - 1) % N
            ii == sel[i + 1].first
            c_ptr == channelData(f, c)
            Ix == At(c_ptr, ii + 1, oob) - At(c_ptr, ii - 1, oob)
            Iy == At(c_ptr, ii + stride, oob) - At(c_ptr, ii - stride, oob)
        IN  IF N > 0 /\ c < channelsSize(f)
            THEN GradTimesJw(Fx * Ix, Fy * Iy, Jw[i + 1])
            ELSE J0[k]]

\* the channel-buffer elements lines 245-247 read
SetDataReads(f, sel, stride) ==
  IF channelsSize(f) = 0 THEN {}
  ELSE UNION {LET ii == sel[i].first
              IN  {<<"c", ii, ii>>, <<"r", ii, ii + 1>>, <<"l", ii, ii - 1>>,
                   <<"d", ii, ii + stride>>, <<"u", ii, ii - stride>>}
              : i \in 1..Len(sel)}

\* setData(channels, D) on a store holding (points, pixels, jacobians)
setData(points, pixels, jacobians, f, pfill, jfill, oob) ==
  LET smap == computeSaliencyMap(f)
      do_nonmax_supp == smap.rows * smap.cols >= MIN_NUM_FOR_PIXEL_PSELECTION
      nms_radius == 1
      sel == getValidPixelsLocations(f, smap, nms_radius, do_nonmax_supp)
      stride == smap.cols
      P1 == ComputePoints(Resize(points, Len(sel), pfill), sel, stride)
      Jw == [i \in 1..Len(P1) |-> warpJacobianAtZero(P1[i])]
      X0 == Resize(pixels, Len(P1) * NumChannels, 0)
      J0 == ResizeJacobians(jacobians, Len(P1) * NumChannels, jfill)
  IN  [points    |-> P1,
       pixels    |-> ExtractPixels(X0, f, sel, oob),
       jacobians |-> PushSentinel(ExtractJacobians(J0, f, sel, Jw, stride, oob)),
       selIn     |-> [frame |-> f, nms_radius |-> nms_radius,
                      do_nonmax_supp |-> do_nonmax_supp],
       inds      |-> sel,
       reads     |-> SetDataReads(f, sel, stride)]

----------------------------------------------------------------------------
(* ResidualEvaluator: computeResiduals *)

\* the validity test with both upper limits included
IsValidInclusive(xi, yi, max_rows, max_cols) ==
  xi >= 0 /\ xi <= max_cols /\ yi >= 0 /\ yi <= max_rows

\* xi >= 0 && xi < max_cols && yi >= 0 && yi < max_rows
IsValid(xi, yi, max_rows, max_cols) ==
  xi >= 0 /\ xi < max_cols /\ yi >= 0 /\ yi < max_rows

\* the geometry pass, lines 278-305: per point the rounded pixel, the
\* validity flag and the four interpolation coefficients (times Scale^2)
Geometry(points, pose, max_rows, max_cols) ==
  [i \in 1..Len(points) |->
    LET x  == Project(pose, points[i])
        xi == cvFloorHalfUp(x.x)
        yi == cvFloorHalfUp(x.y)
        xf == x.x - (xi * Scale)
        yf == x.y - (yi * Scale)
    IN  [xi |-> xi, yi |-> yi,
         valid |-> IF IsValid(xi, yi, max_rows, max_cols) THEN 1 ELSE 0,
         w  |-> << (Scale - yf) * (Scale - xf), (Scale - yf) * xf,
                   yf * (Scale - xf), yf * xf >>]]

\* interp_coeffs[i].dot(I[ii], I[ii+1], I[ii+stride], I[ii+stride+1])
Interpolate(w, I_ptr, ii, stride, oob) ==
    (w[1] * At(I_ptr, ii, oob)) + (w[2] * At(I_ptr, ii + 1, oob))
  + (w[3] * At(I_ptr, ii + stride, oob)) + (w[4] * At(I_ptr, ii + stride + 1, oob))

\* the else branch of line 325 left out: the slot keeps what it held
ResidualValueNoElse(v, Iw, I0, old) == IF v = 1 THEN Iw - I0 ELSE old

\* lines 315-327: r_ptr[i] = valid[i] ? Iw - I0_ptr[i] : 0
ResidualValue(v, Iw, I0, old) == IF v = 1 THEN Iw - I0 ELSE 0

\* the loops of lines 309-329 writing `dst` and reading the references `src`
WriteResiduals(dst, src, geo, f, n, oob) ==
  [k \in 1..Len(dst) |->
    LET c == (k - 1) \div n
        i == (k - 1) % n
        g == geo[i + 1]
        stride == f.cols
        ii == (g.yi * stride) + g.xi
        Iw == Interpolate(g.w, channelData(f, c), ii, stride, oob)
    IN  IF n > 0 /\ c < channelsSize(f)
        THEN ResidualValue(g.valid, Iw, Scale * Scale * src[k], dst[k])
        ELSE dst[k]]

\* r_ptr and I0_ptr exchanged: the residuals land in the stored pixels
InterpolationPassSwapped(R0, X, geo, f, n, oob) ==
  [residuals |-> R0, pixels |-> WriteResiduals(X, R0, geo, f, n, oob)]

\* the interpolation pass, lines 307-329
InterpolationPass(R0, X, geo, f, n, oob) ==
  [residuals |-> WriteResiduals(R0, X, geo, f, n, oob), pixels |-> X]

\* the channel-buffer elements line 318 reads
ResidualReads(f, geo) ==
  IF channelsSize(f) = 0 THEN {}
  ELSE UNION {LET ii == (geo[i].yi * f.cols) + geo[i].xi
              IN  IF geo[i].valid = 1
                  THEN {<<"00", ii, ii>>, <<"01", ii, ii + 1>>,
                        <<"10", ii, ii + f.cols>>, <<"11", ii, ii + f.cols + 1>>}
                  ELSE {}
              : i \in 1..Len(geo)}

\* computeResiduals(channels, pose, residuals, valid)
computeResiduals(points, pixels, f, pose, res, val, oob) ==
  LET max_rows == f.rows - 1
      max_cols == f.cols - 1
      n    == Len(points)
      geo  == Geometry(points, pose, max_rows, max_cols)
      V1   == [i \in 1..Len(Resize(val, n, 0)) |-> geo[i].valid]
      pass == InterpolationPass(Resize(res, Len(pixels), 0), pixels, geo, f, n, oob)
  IN  [pose      |-> pose,
       valid     |-> V1,
       residuals |-> pass.residuals,
       pixels    |-> pass.pixels,
       reads     |-> ResidualReads(f, geo)]

----------------------------------------------------------------------------
(* The store as a state machine *)

\* what the caller's output buffers may hold before the first call
JunkResiduals == <<3, -3, 3, -3, 3>>
JunkValid == <<1, 1, 1>>

\* TemplateData_(K, baseline, pyr_level): three empty vectors
Init ==
  /\ _points = <<>>
  /\ _pixels = <<>>
  /\ _jacobians = <<>>
  /\ _warp = IdentityPose
  /\ \/ residuals = <<>> /\ valid = <<>>
     \/ residuals = JunkResiduals /\ valid = JunkValid
  /\ selIn = [frame |-> NoFrame, nms_radius |-> 0, do_nonmax_supp |-> FALSE]
  /\ inds = <<>>
  /\ cur = NoFrame
  /\ reads = {}
  /\ lastOp = "ctor"

\* reserve(n)
DoReserve(n) ==
  /\ _jacobians' = Reserve(_jacobians, n * NumChannels, JacobianZero)
  /\ _points' = Reserve(_points, n, makePoint(0, 0, 0))
  /\ _pixels' = Reserve(_pixels, n * NumChannels, 0)
  /\ reads' = {}
  /\ lastOp' = "reserve"
  /\ UNCHANGED <<_warp, residuals, valid, selIn, inds, cur>>

\* setData(channels, D)
DoSetData(f) ==
  LET smap == computeSaliencyMap(f)
      sel  == getValidPixelsLocations(f, smap, 1,
                smap.rows * smap.cols >= MIN_NUM_FOR_PIXEL_PSELECTION)
      N    == Len(sel)
  IN  \E pfill \in AppendedValues(Len(_points), N, IndeterminatePoints),
         jfill \in AppendedValues(Len(_jacobians), N * NumChannels,
                                  IndeterminateJacobians),
         oob \in OutOfBufferValues({rd[3] : rd \in SetDataReads(f, sel, smap.cols)},
                                   f.rows * f.cols) :
        LET r == setData(_points, _pixels, _jacobians, f, pfill, jfill, oob)
        IN  /\ _points' = r.points
            /\ _pixels' = r.pixels
            /\ _jacobians' = r.jacobians
            /\ selIn' = r.selIn
            /\ inds' = r.inds
            /\ reads' = r.reads
            /\ lastOp' = "setData"
            /\ UNCHANGED <<_warp, residuals, valid, cur>>

\* computeResiduals(channels, pose, residuals, valid)
DoComputeResiduals(f, pose) ==
  LET geo == Geometry(_points, pose, f.rows - 1, f.cols - 1)
  IN  \E oob \in OutOfBufferValues({rd[3] : rd \in ResidualReads(f, geo)},
                                   f.rows * f.cols) :
        LET r == computeResiduals(_points, _pixels, f, pose, residuals, valid, oob)
        IN  /\ _warp' = r.pose
            /\ valid' = r.valid
            /\ residuals' = r.residuals
            /\ _pixels' = r.pixels
            /\ cur' = f
            /\ reads' = r.reads
            /\ lastOp' = "computeResiduals"
            /\ UNCHANGED <<_points, _jacobians, selIn, inds>>

Next ==
  \/ \E n \in 0..MaxReserve : DoReserve(n)
  \/ \E f \in Frames : DoSetData(f)
  \/ \E f \in Frames, pose \in Poses : DoComputeResiduals(f, pose)

Spec == Init /\ [][Next]_vars

----------------------------------------------------------------------------
(* The pixel selector on its own *)

\* getValidPixelsLocations(dmap, smap, nms_radius, do_nonmax_supp)
Select(f, nms_radius, do_nonmax_supp) ==
  /\ selIn' = [frame |-> f, nms_radius |-> nms_radius,
               do_nonmax_supp |-> do_nonmax_supp]
  /\ inds' = getValidPixelsLocations(f, computeSaliencyMap(f), nms_radius,
                                     do_nonmax_supp)
  /\ lastOp' = "select"
  /\ UNCHANGED <<_points, _pixels, _jacobians, _warp, residuals, valid,
                 cur, reads>>

NextSel ==
  \E f \in SelFrames, nms_radius \in 1..MaxRadius, do_nonmax_supp \in BOOLEAN :
    Select(f, nms_radius, do_nonmax_supp)

SpecSel == Init /\ [][NextSel]_vars

----------------------------------------------------------------------------
(* Properties *)

\* number of pixels the selector returned for the last setData
N == Len(inds)

\* sequence index of the C++ slot c*n + i, for channel c and 0-based point i
Slot(c, n, i) == (c * n) + i + 1

\* the projected coordinate of stored point i (1-based), in 1/Scale pixel
Projected(i) == Project(_warp, _points[i])

\* floor(v/Scale + 0.5) lies in lo .. hi-1
RoundsInto(v, lo, hi) ==
  (2 * v) + Scale >= 2 * lo * Scale /\ (2 * v) + Scale < 2 * hi * Scale

\* the round-half-up pixel of stored point i lies in [0, cols-2] x [0, rows-2]
\* of the current image
RoundedInside(i) ==
  /\ RoundsInto(Projected(i).x, 0, cur.cols - 1)
  /\ RoundsInto(Projected(i).y, 0, cur.rows - 1)

\* the continuous coordinate of stored point i lies in [0, cols-2] x [0, rows-2]
ContinuousInside(i) ==
  /\ Projected(i).x >= 0 /\ Projected(i).x <= (cur.cols - 2) * Scale
  /\ Projected(i).y >= 0 /\ Projected(i).y <= (cur.rows - 2) * Scale

\* point i (1-based) is flagged invalid and its residual is 0 in every channel
InvalidAndZero(i) ==
  /\ valid[i] = 0
  /\ \A c \in 0..(NumChannels - 1) : residuals[Slot(c, Len(_points), i - 1)] = 0

\* the output buffers have the sizes computeResiduals gives them
BuffersSized ==
  Len(valid) = Len(_points) /\ Len(residuals) = Len(_points) * NumChannels

\* C1: after every completed setData the three arrays have lengths N,
\* N * NumChannels and N * NumChannels + 1, N being the number of pixels the
\* selector returned for this call, whatever the store held before.
C1_SetDataSizes ==
  lastOp = "setData" =>
    /\ Len(_points) = N
    /\ Len(_pixels) = N * NumChannels
    /\ Len(_jacobians) = (N * NumChannels) + 1

\* C1 witness: a setData selecting at least two pixels on a store that an
\* earlier computeResiduals saw with fewer points
C1_Witness ==
  lastOp = "setData" /\ N >= 2 /\ cur # NoFrame /\ Len(valid) < N /\ Len(valid) > 0

\* C2: after computeResiduals valid has length N and residuals length
\* N * NumChannels; valid[i] is set exactly when the round-half-up pixel of
\* the projected point lies in [0, cols-2] x [0, rows-2]; and every invalid
\* point's slot c*N + i holds exactly 0 in every channel.
C2_ResidualPostcondition ==
  lastOp = "computeResiduals" =>
    /\ BuffersSized
    /\ \A i \in 1..Len(_points) :
         /\ valid[i] \in {0, 1}
         /\ valid[i] = 1 <=> RoundedInside(i)
         /\ valid[i] = 0 => InvalidAndZero(i)

\* C2 witness: a call that flags one point invalid and another valid with a
\* nonzero residual, into buffers that were longer before
C2_Witness ==
  /\ lastOp = "computeResiduals"
  /\ \E i \in 1..Len(valid) : valid[i] = 0
  /\ \E i \in 1..Len(valid) :
       valid[i] = 1 /\ residuals[Slot(0, Len(_points), i - 1)] # 0

\* C3: setData(channels, D) followed by computeResiduals on the same
\* channels with the no-motion pose flags every retained point valid and
\* leaves residual 0 in every channel.
C3_IdentityRoundTrip ==
  (lastOp = "computeResiduals" /\ cur = selIn.frame /\ _warp = IdentityPose) =>
    /\ Len(valid) = N
    /\ Len(residuals) = N * NumChannels
    /\ \A i \in 1..N :
         /\ valid[i] = 1
         /\ \A c \in 0..(NumChannels - 1) : residuals[Slot(c, N, i - 1)] = 0

\* C3 witness: the round trip on a store of at least two points
C3_Witness ==
  /\ lastOp = "computeResiduals" /\ cur = selIn.frame /\ _warp = IdentityPose
  /\ N >= 2

\* the (linear index, depth) pairs of the pixels with valid depth whose row
\* lies in top .. bottom and whose column lies in left .. right
ValidPixelsIn(f, top, bottom, left, right) ==
  {<<ii, Disparity(f, ii)>> :
     ii \in {k \in 0..((f.rows * f.cols) - 1) :
               /\ Disparity(f, k) > 0
               /\ (k \div f.cols) >= top /\ (k \div f.cols) <= bottom
               /\ (k % f.cols) >= left /\ (k % f.cols) <= right}}

\* inds lists exactly the pairs of S, each once, by increasing linear index
ListsInRowMajorOrder(S) ==
  /\ {<<inds[k].first, inds[k].second>> : k \in 1..Len(inds)} = S
  /\ Len(inds) = Cardinality(S)
  /\ \A k \in 1..(Len(inds) - 1) : inds[k].first < inds[k + 1].first

C5_Original ==
  lastOp = "computeResiduals" =>
    /\ BuffersSized
    /\ \A i \in 1..Len(_points) : ~ContinuousInside(i) => InvalidAndZero(i)

\* C5 amended: every stored point whose projected coordinate falls outside
\* [-0.5, cols-1.5) x [-0.5, rows-1.5), that is whose round-half-up pixel
\* falls outside [0, cols-2] x [0, rows-2], is flagged invalid with residual
\* 0 in every channel; a point less than half a pixel outside
\* [0, cols-2] x [0, rows-2] rounds into it and is flagged valid.
C5_RoundedOutside ==
  lastOp = "computeResiduals" =>
    /\ BuffersSized
    /\ \A i \in 1..Len(_points) :
         /\ ~RoundedInside(i) => InvalidAndZero(i)
         /\ (RoundedInside(i) /\ ~ContinuousInside(i)) => valid[i] = 1

\* C5 witness: one point projected left of or above -0.5 and flagged
\* invalid, another in the half-pixel band and flagged valid
C5_Witness ==
  /\ lastOp = "computeResiduals" /\ BuffersSized
  /\ \E i \in 1..Len(_points) :
       /\ (2 * Projected(i).x) + Scale < 0 \/ (2 * Projected(i).y) + Scale < 0
       /\ valid[i] = 0
  /\ \E i \in 1..Len(_points) :
       RoundedInside(i) /\ ~ContinuousInside(i) /\ valid[i] = 1

\* C6: after every completed setData the element at index N * NumChannels
\* is the last one and is the all-zero Jacobian, also for N = 0 and whatever
\* the array held before.
C6_TrailingZero ==
  lastOp = "setData" =>
    /\ Len(_jacobians) = (N * NumChannels) + 1
    /\ _jacobians[(N * NumChannels) + 1] = JacobianZero

\* C6 witness: a setData that selects nothing on a store that held points
\* and Jacobians before
C6_Witness ==
  /\ lastOp = "setData" /\ N = 0 /\ _jacobians = <<JacobianZero>>
  /\ cur # NoFrame /\ Len(residuals) > 0

\* C7: after setData(B), whatever calls came before, points, pixels and
\* jacobians equal those of a freshly constructed store after setData(B).
C7_SetDataReplaces ==
  lastOp = "setData" =>
    LET fresh == setData(<<>>, <<>>, <<>>, selIn.frame, makePoint(0, 0, 0),
                         JacobianZero, 0)
    IN  /\ _points = fresh.points
        /\ _pixels = fresh.pixels
        /\ _jacobians = fresh.jacobians

\* C7 witness: a setData on a store that held more points when
\* computeResiduals last ran on it
C7_Witness ==
  lastOp = "setData" /\ N > 0 /\ cur # NoFrame /\ Len(valid) > N

\* C8: a computeResiduals step leaves points, pixels and jacobians (and what
\* the selector returned) as they were.
C8_ResidualsReadOnly ==
  [][lastOp' = "computeResiduals" =>
       /\ _points' = _points
       /\ _pixels' = _pixels
       /\ _jacobians' = _jacobians
       /\ inds' = inds /\ selIn' = selIn]_vars

\* C8 witness: a computeResiduals on a non-empty store that moved the pose
\* and wrote a nonzero residual
C8_Witness ==
  /\ lastOp = "computeResiduals" /\ Len(_points) > 0 /\ _warp # IdentityPose
  /\ \E k \in 1..Len(residuals) : residuals[k] # 0

\* the three lengths agree with N and the last Jacobian is the sentinel
SizeInvariants ==
  /\ Len(_points) = N
  /\ Len(_pixels) = N * NumChannels
  /\ Len(_jacobians) = (N * NumChannels) + 1
  /\ _jacobians[Len(_jacobians)] = JacobianZero

\* C9 as stated: the size invariants hold in every state between public
\* calls, the store as constructed included.
C9_Original == SizeInvariants

\* C9 amended: the size invariants hold in every state from the first
\* completed setData on, through any reserve, setData and computeResiduals;
\* before it (as constructed, and after reserve or computeResiduals only)
\* the three arrays are empty and there is no sentinel.
C9_AfterFirstSetData ==
  IF selIn.frame # NoFrame
  THEN SizeInvariants
  ELSE _points = <<>> /\ _pixels = <<>> /\ _jacobians = <<>>

\* C9 witness: a reserve on a store that setData filled and
\* computeResiduals read
C9_Witness ==
  lastOp = "reserve" /\ N > 0 /\ cur # NoFrame /\ Len(valid) = N

\* the frame whose channel buffers the last call read
ReadFrame == IF lastOp = "setData" THEN selIn.frame ELSE cur

\* C10: every channel-buffer read of setData and computeResiduals is inside
\* the buffer, and the left/right gradient reads stay in the pixel's row.
C10_ReadsInBounds ==
  \A rd \in reads :
    /\ rd[3] \in 0..((ReadFrame.rows * ReadFrame.cols) - 1)
    /\ rd[1] \in {"l", "r"} => rd[3] \div ReadFrame.cols = rd[2] \div ReadFrame.cols

\* C10 witness: computeResiduals samples the four neighbours of a point
\* whose coordinate is negative and rounds up to column or row 0
C10_Witness ==
  /\ lastOp = "computeResiduals" /\ BuffersSized
  /\ \E i \in 1..Len(_points) :
       /\ valid[i] = 1
       /\ Projected(i).x < 0 \/ Projected(i).y < 0
       /\ \E rd \in reads : rd[1] = "11"

====
